---- MODULE Spec2Model ----
(***************************************************************************)
(* A model of gbfs-trip (src/main.py): the BikeRegistry that polls a GBFS  *)
(* free_bike_status feed, diffs consecutive samples of every bike, logs a  *)
(* trip when a bike moved far enough for long enough, and matches both     *)
(* ends of the trip to a station of a longitude-sorted station list.       *)
(*                                                                         *)
(* Units.  Coordinates are integers counting 1e-5 degree (the documented   *)
(* scenarios live next to (0, 0)); epochs are integer seconds.             *)
(* Python indices are 0-based, TLA+ sequences 1-based: Python's            *)
(* station_list[i] is station_list[i + 1] here.  Python's None is the      *)
(* empty tuple and a value v that may be None is the 1-tuple <<v>>.        *)
(* A Python str is the sequence of its code points.                        *)
(***************************************************************************)
EXTENDS Integers, Sequences, FiniteSets, TLC

(***************************************************************************)
(* Bounds of the model.                                                    *)
(***************************************************************************)
MaxPolls == 3
MaxPayloadLen == 2
\* A KeyboardInterrupt inside update arrives in one of the first
\* MaxInterruptPolls polls.
MaxInterruptPolls == 2

None == <<>>
Some(v) == <<v>>

(***************************************************************************)
(* distance (main.py 84-95).  With lat/lon in 1e-5 degree,                 *)
(*   distance = r * sqrt(del_lat^2 + (cos(mean_lat) * del_lon)^2)          *)
(*            = 111.19493 cm * sqrt(dlat^2 + (cos(mean_lat) * dlon)^2).     *)
(* TLA+ has no reals: the model keeps the SQUARE of the distance, in cm^2, *)
(* and the code's comparisons d > 50, d < 10 and d1 < d2 (all between      *)
(* non-negative numbers) are made between squares.  111.19493^2 = 12364.3. *)
(* math.radians and math.cos are computed in fixed point with 6 decimals   *)
(* (cos by its series up to x^12, exact to 4e-6 on [0, pi/2]).  For        *)
(* latitudes up to 85 degrees the squared distance is the square of the    *)
(* code's float to within 4 cm^2 plus 2e-4 of its value; a comparison of   *)
(* the code whose operands the model has closer together than that is not  *)
(* decided by the model and can have either outcome (less_than below).     *)
(***************************************************************************)
CmSqPerUnitSq == 12364

\* (r * radians(1e-5 degree))^2 * n in cm^2, r = 6371e3 m (main.py 94):
\* 111.194926645^2 = 12364.3117.
r_sq(n) == CmSqPerUnitSq * n + (n * 3117) \div 10000

\* (a * b) / 10^6 for 0 <= a < 2 * 10^9 and 0 <= b <= 10^6 (or both below
\* 4 * 10^7), within 32-bit integers.
mul_e6(a, b) ==
    LET ah == a \div 1000
        al == a % 1000
        bh == b \div 1000
        bl == b % 1000
    IN  ah * bh + (ah * bl + al * bh) \div 1000 + (al * bl) \div 1000000

\* 10^6 * math.radians(lat) for lat in 1e-5 degree (main.py 89-90);
\* pi / 180 * 1e-5 * 10^6 = 0.17453293.
radians_e6(lat) ==
    LET m == IF lat < 0 THEN 0 - lat ELSE lat
        x == ((m \div 1000) * 174533) \div 1000 + ((m % 1000) * 1745) \div 10000
    IN  IF lat < 0 THEN 0 - x ELSE x

\* 10^6 * math.cos(x / 10^6) for 0 <= x <= pi / 2 * 10^6 (main.py 95).
cos_e6(x) ==
    LET x2  == mul_e6(x, x)
        x4  == mul_e6(x2, x2)
        x6  == mul_e6(x4, x2)
        x8  == mul_e6(x4, x4)
        x10 == mul_e6(x8, x2)
        x12 == mul_e6(x6, x6)
    IN  1000000 - x2 \div 2 + x4 \div 24 - x6 \div 720 + x8 \div 40320
                - x10 \div 3628800 + x12 \div 479001600

\* (r * cos(mean_lat) * del_lon)^2 in cm^2 (main.py 95), for mean_lat in
\* 1e-6 radian and del_lon in 1e-5 degree; cos(-x) = cos(x) and cos(0) = 1.
cos_del_lon_sq(mean_lat, del_lon) ==
    LET m  == IF mean_lat < 0 THEN 0 - mean_lat ELSE mean_lat
        sq == r_sq(del_lon * del_lon)
    IN  IF m = 0
        THEN sq
        ELSE LET c == cos_e6(m)
             IN  mul_e6(sq, mul_e6(c, c))

\* distance with the cosine of the first argument's latitude in place of
\* that of the mean latitude.
distance_sq_cos_lat1(obj1, obj2) ==
    LET lat1    == radians_e6(obj1.lat)
        del_lat == obj2.lat - obj1.lat
        del_lon == obj2.lon - obj1.lon
    IN  r_sq(del_lat * del_lat) + cos_del_lon_sq(lat1, del_lon)

distance_sq(obj1, obj2) ==
    LET lat1     == radians_e6(obj1.lat)
        lat2     == radians_e6(obj2.lat)
        del_lat  == obj2.lat - obj1.lat
        del_lon  == obj2.lon - obj1.lon
        mean_lat == (lat1 + lat2) \div 2
    IN  r_sq(del_lat * del_lat) + cos_del_lon_sq(mean_lat, del_lon)

\* The square, in cm^2, of a length given in metres.
squared(metres) == (metres * 100) * (metres * 100)

(***************************************************************************)
(* The outcomes the float comparison x < y of the code can have when the   *)
(* model has a and b for the squares of x and y.  The squares are the      *)
(* code's to within Slack: operands further apart than that are in the     *)
(* order of a and b, closer operands can compare either way.  A distance   *)
(* of 0 is exact (both arguments at the same coordinates).                 *)
(***************************************************************************)
Slack(a, b) == (IF a > b THEN a ELSE b) \div 2000 + 4

less_than(a, b) ==
    IF a = 0 \/ b = 0
    THEN {a < b}
    ELSE IF a + Slack(a, b) < b
         THEN {TRUE}
         ELSE IF b + Slack(a, b) < a
              THEN {FALSE}
              ELSE BOOLEAN

\* away_from with a threshold of 0 m: any move is away.
away_from_at_all(self, other) == less_than(squared(0), distance_sq(self, other))

\* Bike.away_from (main.py 53-57), distance(self, other) > 50: the outcomes
\* the call can have.
away_from(self, other) == less_than(squared(50), distance_sq(self, other))

\* Bike.has_moved (main.py 59-61).
has_moved(self, other) == self.lat # other.lat \/ self.lon # other.lon

(***************************************************************************)
(* bisect.bisect_left / bisect.bisect_right as find_station calls them     *)
(* (main.py 68-69), with the comparisons Python dispatches to:             *)
(* bisect_left tests a[mid] < x, which is Station.__lt__ (main.py 38-39),  *)
(* bisect_right tests x < a[mid], which is Bike.__lt__ (main.py 50-51).    *)
(* lo, hi and the result are Python's 0-based indices.                     *)
(***************************************************************************)
RECURSIVE bisect_left(_, _, _, _)
bisect_left(a, x, lo, hi) ==
    IF lo < hi
    THEN LET mid == (lo + hi) \div 2
         IN  IF a[mid + 1].lon < x.lon
             THEN bisect_left(a, x, mid + 1, hi)
             ELSE bisect_left(a, x, lo, mid)
    ELSE lo

RECURSIVE bisect_right(_, _, _, _)
bisect_right(a, x, lo, hi) ==
    IF lo < hi
    THEN LET mid == (lo + hi) \div 2
         IN  IF x.lon < a[mid + 1].lon
             THEN bisect_right(a, x, lo, mid)
             ELSE bisect_right(a, x, mid + 1, hi)
    ELSE lo

\* The exception raised by station_list[i] when i = len(station_list).
IndexError == [raised |-> "IndexError"]

\* The Station built at main.py 76-81.
FlexParking(self) ==
    [id |-> 0, name |-> "Flex parking", lat |-> self.lat, lon |-> self.lon]

(***************************************************************************)
(* The outcomes the test d1 < d2 of main.py 72 can have, d1 and d2 being   *)
(* the floats distance(station1, self) and distance(station2, self).       *)
(* For one station, or two at the same coordinates, d1 and d2 are the same *)
(* float and the test is false.  Otherwise it is decided when the two      *)
(* squared distances differ by more than the model's precision; when they  *)
(* are equal or closer than that, the floats come from different roundings *)
(* and the test can have either outcome.                                   *)
(***************************************************************************)
d1_less_than_d2(station1, station2, self) ==
    LET d1 == distance_sq(station1, self)
        d2 == distance_sq(station2, self)
    IN  IF ~has_moved(station1, station2)
        THEN {FALSE}
        ELSE IF d1 = d2 THEN BOOLEAN ELSE less_than(d1, d2)

(***************************************************************************)
(* Bike.find_station (main.py 63-81): the set of the results the call can  *)
(* have, one unless a comparison is undecided.  i1, i2 are never None, so  *)
(* both station_list[i1] and station_list[i2] are always evaluated, d1     *)
(* first: an index equal to len(station_list) raises IndexError.           *)
(***************************************************************************)
find_station(self, station_list) ==
    LET n  == Len(station_list)
        i1 == bisect_left(station_list, self, 0, n)
        i2 == bisect_right(station_list, self, 0, n)
    IN  IF i1 >= n \/ i2 >= n
        THEN {IndexError}
        ELSE LET d1 == distance_sq(station_list[i1 + 1], self)
                 d2 == distance_sq(station_list[i2 + 1], self)
             IN  {IF less /\ near1
                  THEN station_list[i1 + 1]
                  ELSE IF near2
                       THEN station_list[i2 + 1]
                       ELSE FlexParking(self) :
                     less \in d1_less_than_d2(station_list[i1 + 1],
                                              station_list[i2 + 1], self),
                     near1 \in less_than(d1, squared(10)),
                     near2 \in less_than(d2, squared(10))}

(***************************************************************************)
(* datetime.fromtimestamp(t, tz=timezone.utc).isoformat(sep=" ") for an    *)
(* integer epoch t (main.py 15-16): "YYYY-MM-DD HH:MM:SS+00:00", every     *)
(* field zero-padded, as the sequence of its code points.  The civil date  *)
(* of a day number is computed as the proleptic Gregorian calendar gives   *)
(* it (400-year eras of 146097 days, years starting on 1 March).           *)
(***************************************************************************)
Digit(d) == 48 + d

Pad2(n) == <<Digit(n \div 10), Digit(n % 10)>>

Pad4(n) ==
    <<Digit(n \div 1000), Digit((n \div 100) % 10),
      Digit((n \div 10) % 10), Digit(n % 10)>>

civil_from_days(days) ==
    LET z   == days + 719468
        era == z \div 146097
        doe == z - era * 146097
        yoe == (doe - doe \div 1460 + doe \div 36524 - doe \div 146096) \div 365
        doy == doe - (365 * yoe + yoe \div 4 - yoe \div 100)
        mp  == (5 * doy + 2) \div 153
        d   == doy - (153 * mp + 2) \div 5 + 1
        m   == IF mp < 10 THEN mp + 3 ELSE mp - 9
        y   == yoe + era * 400 + (IF m <= 2 THEN 1 ELSE 0)
    IN  [year |-> y, month |-> m, day |-> d]

\* The format without the date: "HH:MM:SS+00:00".
isoformat_time(t) ==
    LET secs == t % 86400
        hh   == secs \div 3600
        mm   == (secs % 3600) \div 60
        ss   == secs % 60
    IN  Pad2(hh) \o <<58>> \o Pad2(mm) \o <<58>> \o Pad2(ss)
        \o <<43>> \o Pad2(0) \o <<58>> \o Pad2(0)

isoformat(t) ==
    LET date == civil_from_days(t \div 86400)
        secs == t % 86400
        hh   == secs \div 3600
        mm   == (secs % 3600) \div 60
        ss   == secs % 60
    IN  Pad4(date.year) \o <<45>> \o Pad2(date.month) \o <<45>> \o Pad2(date.day)
        \o <<32>> \o Pad2(hh) \o <<58>> \o Pad2(mm) \o <<58>> \o Pad2(ss)
        \o <<43>> \o Pad2(0) \o <<58>> \o Pad2(0)

\* Python's str ordering: by code point, a proper prefix first.
RECURSIVE StrLess(_, _)
StrLess(a, b) ==
    IF b = <<>> THEN FALSE
    ELSE IF a = <<>> THEN TRUE
    ELSE IF Head(a) # Head(b) THEN Head(a) < Head(b)
    ELSE StrLess(Tail(a), Tail(b))

(***************************************************************************)
(* new_trip (main.py 12-26): the dict appended to BikeRegistry.trips.      *)
(* started_epoch and ended_epoch are history fields the dict does not      *)
(* have: they remember the epochs the two strings were formatted from, so  *)
(* that properties about epochs can be stated.  No operation reads them.   *)
(***************************************************************************)
new_trip(start_station, end_station, started_at, ended_at) ==
    [started_at              |-> isoformat(started_at),
     ended_at                |-> isoformat(ended_at),
     duration                |-> ended_at - started_at,
     start_station_id        |-> start_station.id,
     start_station_name      |-> start_station.name,
     start_station_latitude  |-> start_station.lat,
     start_station_longitude |-> start_station.lon,
     end_station_id          |-> end_station.id,
     end_station_name        |-> end_station.name,
     end_station_latitude    |-> end_station.lat,
     end_station_longitude   |-> end_station.lon,
     started_epoch           |-> started_at,
     ended_epoch             |-> ended_at]


\* The sort key of main.py 186: lambda k: k['started_at'].
sort_key(k) == k.started_at

(***************************************************************************)
(* list.sort(key=...) (main.py 186): a stable ascending sort by key, here  *)
(* as the insertion sort that yields the same list: each element goes      *)
(* behind every element whose key is not greater than its own.             *)
(***************************************************************************)
RECURSIVE insort(_, _)
insort(sorted, x) ==
    IF sorted = <<>> THEN <<x>>
    ELSE IF StrLess(sort_key(x), sort_key(Head(sorted)))
         THEN <<x>> \o sorted
         ELSE <<Head(sorted)>> \o insort(Tail(sorted), x)

RECURSIVE sort(_)
sort(list) ==
    IF list = <<>> THEN <<>>
    ELSE insort(sort(SubSeq(list, 1, Len(list) - 1)), list[Len(list)])

(***************************************************************************)
(* The inputs of the model.  Stations S1 and S2 and the points (0, 0) and  *)
(* (0, 0.0025) are those of the documented scenarios; (0.00003, 0) lies    *)
(* 3.3 m north of S1, and S3 lies 44 m east of (0, 0.0025).  The epochs    *)
(* are 50 s and 200 s apart, as the documented 1000, 1050 and 1200 are,    *)
(* and lie on either side of midnight: 1970-01-01 23:59:10, then           *)
(* 1970-01-02 00:00:00 and 00:02:30.                                       *)
(***************************************************************************)
S1 == [station_id |-> 1, name |-> "S1", lat |-> 0, lon |-> 0]
S2 == [station_id |-> 2, name |-> "S2", lat |-> 0, lon |-> 200]
S3 == [station_id |-> 3, name |-> "S3", lat |-> 0, lon |-> 290]

\* The "stations" arrays the station_information feed may deliver.
StationFeeds == {<<S1, S2>>, <<S3, S2, S1>>}

BikeIds == {"b1", "b2"}

AtS1 == [lat |-> 0, lon |-> 0]
NearS1 == [lat |-> 3, lon |-> 0]
EastOfS2 == [lat |-> 0, lon |-> 250]

Points == {AtS1, NearS1, EastOfS2}

Times == {86350, 86400, 86550}

\* The entries of data.bikes in free_bike_status.json: a bike in service at
\* any of the points, or a disabled bike, which the feed reports at S1.
BikeEntries ==
    {[bike_id |-> b, lat |-> p.lat, lon |-> p.lon, is_disabled |-> 0] :
        b \in BikeIds, p \in Points}
    \cup {[bike_id |-> b, lat |-> AtS1.lat, lon |-> AtS1.lon, is_disabled |-> 1] :
        b \in BikeIds}

\* The bikes arrays of the modelled payloads: every bike at most once.
BikeArrays ==
    UNION {{a \in [1..n -> BikeEntries] :
                \A i, j \in 1..n : i # j => a[i].bike_id # a[j].bike_id} :
           n \in 0..MaxPayloadLen}

\* The decoded free_bike_status.json documents the feed may deliver.
Payloads ==
    {[last_updated |-> t, ttl |-> 60, bikes |-> a] : t \in Times, a \in BikeArrays}
    \cup {[last_updated |-> t, ttl |-> 30, bikes |-> <<>>] : t \in Times}

NoPayload == [last_updated |-> 0, ttl |-> 0, bikes |-> <<>>]

(***************************************************************************)
(* The state: the fields of the BikeRegistry (main.py 104-120), where the  *)
(* main program stands (pc), and history variables.                        *)
(*   pc      "running": in the loop of main.py 177-184;                    *)
(*           "crashed": ended by an exception nothing catches;             *)
(*           "interrupted": KeyboardInterrupt inside update, in the        *)
(*                      handler of main.py 185 before the sort;            *)
(*           "saved":   KeyboardInterrupt, trips sorted and dumped.        *)
(*   polls   the calls of update made so far.                              *)
(*   call    the last operation: its kind, the payload it decoded, the     *)
(*           registry as it was before it, and how many entries of the     *)
(*           payload the loop of main.py 141 reconciled.                   *)
(*   enabled the bike ids some accepted payload contained with             *)
(*           is_disabled = 0.                                              *)
(*   lookup  a single call of find_station on self.stations, for the       *)
(*           specification of the station lookup alone: the point asked    *)
(*           for, whether the call was made, and what came of it.          *)
(*   measure calls of distance on two objects with lat and lon, for the    *)
(*           specification of distance alone: the objects, whether the     *)
(*           calls were made, and what distance(obj1, obj2), (obj2, obj1)  *)
(*           and (obj1, obj1) returned, in cm^2.                           *)
(***************************************************************************)
VARIABLES stations, bikes, trips, last_updated, ttl, pc, polls, call, enabled,
          lookup, measure

vars ==
    <<stations, bikes, trips, last_updated, ttl, pc, polls, call, enabled, lookup,
      measure>>

registry == <<stations, bikes, trips, last_updated, ttl, pc, polls, call, enabled>>

\* Station.__init__ (main.py 32-36).
Station(station_json) ==
    [id   |-> station_json.station_id,
     name |-> station_json.name,
     lat  |-> station_json.lat,
     lon  |-> station_json.lon]

\* Bike.__init__ (main.py 45-48).
Bike(bike_json, last_seen_at) ==
    [lat |-> bike_json.lat, lon |-> bike_json.lon, last_seen |-> last_seen_at]

(***************************************************************************)
(* self.stations.sort() (main.py 120): stable, ascending by Station.__lt__ *)
(* (main.py 38-39), i.e. by longitude.                                     *)
(***************************************************************************)
RECURSIVE insort_station(_, _)
insort_station(sorted, x) ==
    IF sorted = <<>> THEN <<x>>
    ELSE IF x.lon < Head(sorted).lon
         THEN <<x>> \o sorted
         ELSE <<Head(sorted)>> \o insort_station(Tail(sorted), x)

RECURSIVE sort_stations(_)
sort_stations(list) ==
    IF list = <<>> THEN <<>>
    ELSE insort_station(sort_stations(SubSeq(list, 1, Len(list) - 1)),
                        list[Len(list)])

\* The loop of main.py 117-120.
load_stations(stations_json) ==
    sort_stations([i \in 1..Len(stations_json) |-> Station(stations_json[i])])

Raised(r) == "raised" \in DOMAIN r

\* dict item assignment, self.bikes[bike_id] = bike.
SetItem(d, k, v) == [x \in DOMAIN d \cup {k} |-> IF x = k THEN v ELSE d[x]]

\* The trip test without the test of the elapsed time.
is_trip_far(old_bike, cur_bike, now) ==
    {away : away \in away_from(old_bike, cur_bike)}

\* The trip test with "or" for "and".
is_trip_either(old_bike, cur_bike, now) ==
    {away \/ now - old_bike.last_seen > 100 :
        away \in away_from(old_bike, cur_bike)}

\* The condition of main.py 147, with now = self.last_updated: the values
\* it can have.
is_trip(old_bike, cur_bike, now) ==
    {away /\ now - old_bike.last_seen > 100 :
        away \in away_from(old_bike, cur_bike)}

\* The trip put in front of the list.
append_front(list, x) == <<x>> \o list

\* list.append, as self.trips.append (main.py 151).
append(list, x) == Append(list, x)

(***************************************************************************)
(* One pass of the loop body of BikeRegistry.update (main.py 142-165) on   *)
(* the registry st = [bikes, trips, error, processed], with                *)
(* now = self.last_updated: the set of the registries it can leave, one    *)
(* unless a comparison of distances is undecided.  An IndexError of        *)
(* find_station leaves the registry as it is and ends the loop.            *)
(***************************************************************************)
reconcile(st, bike_json, now, station_list) ==
    LET bike_id  == bike_json.bike_id
        cur_bike == Bike(bike_json, now)
        done     == [st EXCEPT !.processed = @ + 1]
    IN  IF bike_id \in DOMAIN st.bikes
        THEN LET old_bike == st.bikes[bike_id]
                 seen     == [old_bike EXCEPT !.last_seen = now]
             IN  UNION {
                 IF trip
                 THEN {IF Raised(start_station) \/ Raised(end_station)
                       THEN [st EXCEPT !.error = TRUE]
                       ELSE [done EXCEPT
                               !.trips = append(@, new_trip(start_station,
                                             end_station, old_bike.last_seen, now)),
                               !.bikes = SetItem(@, bike_id, cur_bike)] :
                          start_station \in find_station(old_bike, station_list),
                          end_station \in find_station(cur_bike, station_list)}
                 ELSE IF has_moved(old_bike, cur_bike)
                      THEN {[done EXCEPT !.bikes = SetItem(@, bike_id, cur_bike)]}
                      ELSE {[done EXCEPT !.bikes = SetItem(@, bike_id, seen)]} :
                 trip \in is_trip(old_bike, cur_bike, now)}
        ELSE IF bike_json.is_disabled = 0
             THEN {[done EXCEPT !.bikes = SetItem(@, bike_id, cur_bike)]}
             ELSE {done}

(***************************************************************************)
(* The registries the loop body can be in between the two writes of one    *)
(* pass, with the write that was made: a trip appended (main.py 151-158)   *)
(* before the bike is stored (159), or last_seen stamped (161) on a bike   *)
(* that moved, before its record is replaced (163).  The other passes      *)
(* write once.                                                             *)
(***************************************************************************)
half_reconciled(st, bike_json, now, station_list) ==
    LET bike_id  == bike_json.bike_id
        cur_bike == Bike(bike_json, now)
    IN  IF bike_id \in DOMAIN st.bikes
        THEN LET old_bike == st.bikes[bike_id]
                 seen     == [old_bike EXCEPT !.last_seen = now]
             IN  UNION {
                 IF trip
                 THEN {[st EXCEPT
                          !.trips = append(@, new_trip(start_station,
                                        end_station, old_bike.last_seen, now)),
                          !.cut = "appended"] :
                          start_station \in {r \in find_station(old_bike,
                                                station_list) : ~Raised(r)},
                          end_station \in {r \in find_station(cur_bike,
                                                station_list) : ~Raised(r)}}
                 ELSE IF has_moved(old_bike, cur_bike)
                      THEN {[st EXCEPT !.bikes = SetItem(@, bike_id, seen),
                                       !.cut = "stamped"]}
                      ELSE {} :
                 trip \in is_trip(old_bike, cur_bike, now)}
        ELSE {}

\* The for loop of main.py 141-165 from entry i on: the registries it can
\* end with.
RECURSIVE run_loop(_, _, _, _, _)
run_loop(st, bikes_json, i, now, station_list) ==
    IF i > Len(bikes_json) \/ st.error
    THEN {st}
    ELSE UNION {run_loop(next, bikes_json, i + 1, now, station_list) :
                   next \in reconcile(st, bikes_json[i], now, station_list)}

\* An update that also stamps every tracked bike as seen now.
reconciled_stamp_all(free_bike_status_json) ==
    {[st EXCEPT !.bikes =
         [b \in DOMAIN st.bikes |->
             [st.bikes[b] EXCEPT
                 !.last_seen = free_bike_status_json.last_updated]]] :
        st \in run_loop([bikes |-> bikes, trips |-> trips, error |-> FALSE,
                         processed |-> 0, cut |-> "none"],
                        free_bike_status_json.bikes, 1,
                        free_bike_status_json.last_updated, stations)}

\* What update (main.py 137-165) can leave of an accepted payload.
reconciled(free_bike_status_json) ==
    run_loop([bikes |-> bikes, trips |-> trips, error |-> FALSE,
              processed |-> 0, cut |-> "none"],
             free_bike_status_json.bikes, 1,
             free_bike_status_json.last_updated, stations)

(***************************************************************************)
(* Where a KeyboardInterrupt can find update once main.py 137 has stored   *)
(* last_updated: before ttl is stored (138, cut "ttl"), or in the loop,    *)
(* after any number of whole passes (cut "none") or between the two        *)
(* writes of the next pass (cut "appended" or "stamped").  Each registry   *)
(* is [bikes, trips, ttl, processed, cut]; an interrupt before main.py 137 *)
(* finds the registry as it was.                                           *)
(***************************************************************************)
interrupted(free_bike_status_json) ==
    LET bikes_json == free_bike_status_json.bikes
        now        == free_bike_status_json.last_updated
        start      == [bikes |-> bikes, trips |-> trips, error |-> FALSE,
                       processed |-> 0, cut |-> "none"]
        whole      == UNION {{st \in run_loop(start, SubSeq(bikes_json, 1, k), 1,
                                              now, stations) : ~st.error} :
                             k \in 0..Len(bikes_json)}
        halves     == UNION {half_reconciled(st, bikes_json[st.processed + 1],
                                             now, stations) :
                             st \in {w \in whole : w.processed < Len(bikes_json)}}
    IN  {[bikes |-> st.bikes, trips |-> st.trips, ttl |-> Some(free_bike_status_json.ttl),
          processed |-> st.processed, cut |-> st.cut] : st \in whole \cup halves}
        \cup {[bikes |-> bikes, trips |-> trips, ttl |-> ttl,
               processed |-> 0, cut |-> "ttl"]}

\* The duplicate test comparing the wrong field.
is_duplicate_ttl(free_bike_status_json) ==
    Some(free_bike_status_json.ttl) = ttl

\* update compares the payload's last_updated with the stored one (main.py 135).
is_duplicate(free_bike_status_json) ==
    Some(free_bike_status_json.last_updated) = last_updated

Before(op, payload, processed) ==
    [op |-> op, payload |-> payload, bikes |-> bikes, trips |-> trips,
     last_updated |-> last_updated, ttl |-> ttl, processed |-> processed,
     cut |-> "none"]

EnabledIds(payload) ==
    {payload.bikes[i].bike_id : i \in {j \in 1..Len(payload.bikes) :
                                          payload.bikes[j].is_disabled = 0}}

NoLookup == [point |-> AtS1, done |-> FALSE, result |-> None]

NoMeasure == [obj1 |-> AtS1, obj2 |-> AtS1, done |-> FALSE,
              forth |-> 0, back |-> 0, self |-> 0, away |-> FALSE]

\* The fields BikeRegistry.__init__ sets before it loads the stations
\* (main.py 104-109), and the history variables.
Constructed ==
    /\ bikes = <<>>
    /\ trips = <<>>
    /\ last_updated = None
    /\ ttl = None
    /\ pc = "running"
    /\ polls = 0
    /\ call = [op |-> "init", payload |-> NoPayload, bikes |-> <<>>, trips |-> <<>>,
               last_updated |-> None, ttl |-> None, processed |-> 0,
               cut |-> "none"]
    /\ enabled = {}

\* BikeRegistry.__init__ (main.py 103-120) with a station feed that loads.
Init ==
    /\ \E stations_json \in StationFeeds : stations = load_stations(stations_json)
    /\ Constructed
    /\ lookup = NoLookup
    /\ measure = NoMeasure

(***************************************************************************)
(* One turn of the loop of main.py 177-184 in which urlopen or json.load   *)
(* raises an IOError (URLError is one) or a JSONDecodeError, which update  *)
(* catches (main.py 132-134) and returns.  Line 181 then adds last_updated *)
(* and ttl: while both are None that is a TypeError, which nothing         *)
(* catches.                                                                *)
(***************************************************************************)
FetchFail ==
    /\ pc = "running" /\ polls < MaxPolls
    /\ polls' = polls + 1
    /\ call' = Before("fetch_fail", NoPayload, 0)
    /\ pc' = IF last_updated = None THEN "crashed" ELSE "running"
    /\ UNCHANGED <<stations, bikes, trips, last_updated, ttl, enabled,
                 lookup, measure>>

(***************************************************************************)
(* json.load raises an exception the except clause of main.py 132 does not *)
(* name, as the UnicodeDecodeError of a body that is not valid UTF-8 (a    *)
(* ValueError, not a JSONDecodeError): it leaves update and the main       *)
(* program with nothing assigned, and the process ends without writing     *)
(* data.json.                                                              *)
(***************************************************************************)
DecodeRaise ==
    /\ pc = "running" /\ polls < MaxPolls
    /\ polls' = polls + 1
    /\ call' = Before("decode_raise", NoPayload, 0)
    /\ pc' = "crashed"
    /\ UNCHANGED <<stations, bikes, trips, last_updated, ttl, enabled,
                 lookup, measure>>

\* update returns at main.py 136: the payload repeats the stored last_updated.
UpdateSkip(payload) ==
    /\ pc = "running" /\ polls < MaxPolls
    /\ is_duplicate(payload)
    /\ polls' = polls + 1
    /\ call' = Before("skip", payload, 0)
    /\ UNCHANGED <<stations, bikes, trips, last_updated, ttl, pc, enabled,
                 lookup, measure>>

\* update runs to its end (main.py 137-167).
UpdateAccept(payload) ==
    /\ pc = "running" /\ polls < MaxPolls
    /\ ~is_duplicate(payload)
    /\ \E st \in reconciled(payload) :
           /\ ~st.error
           /\ bikes' = st.bikes
           /\ trips' = st.trips
           /\ call' = Before("accept", payload, st.processed)
    /\ last_updated' = Some(payload.last_updated)
    /\ ttl' = Some(payload.ttl)
    /\ polls' = polls + 1
    /\ enabled' = enabled \cup EnabledIds(payload)
    /\ UNCHANGED <<stations, pc, lookup, measure>>

(***************************************************************************)
(* update is left by the IndexError of find_station (main.py 70-71), which *)
(* neither update nor the main program catches: the registry stays as the  *)
(* loop left it and the process ends without writing data.json.            *)
(***************************************************************************)
UpdateRaise(payload) ==
    /\ pc = "running" /\ polls < MaxPolls
    /\ ~is_duplicate(payload)
    /\ \E st \in reconciled(payload) :
           /\ st.error
           /\ bikes' = st.bikes
           /\ trips' = st.trips
           /\ call' = Before("raise", payload, st.processed)
    /\ last_updated' = Some(payload.last_updated)
    /\ ttl' = Some(payload.ttl)
    /\ polls' = polls + 1
    /\ enabled' = enabled \cup EnabledIds(payload)
    /\ pc' = "crashed"
    /\ UNCHANGED <<stations, lookup, measure>>

(***************************************************************************)
(* KeyboardInterrupt arrives while update reconciles a payload (the try of *)
(* main.py 176 spans the call): update is left where it stands, after      *)
(* main.py 137, and the program is in the handler of main.py 185, about to *)
(* sort and dump.  An interrupt that arrives before main.py 137, in        *)
(* time.sleep or after update returned finds a registry the other actions  *)
(* left, and is Shutdown alone.                                            *)
(***************************************************************************)
UpdateInterrupt(payload) ==
    /\ pc = "running" /\ polls < MaxInterruptPolls
    /\ ~is_duplicate(payload)
    /\ \E st \in interrupted(payload) :
           /\ bikes' = st.bikes
           /\ trips' = st.trips
           /\ ttl' = st.ttl
           /\ call' = [Before("interrupt", payload, st.processed)
                          EXCEPT !.cut = st.cut]
    /\ last_updated' = Some(payload.last_updated)
    /\ polls' = polls + 1
    /\ enabled' = enabled \cup EnabledIds(payload)
    /\ pc' = "interrupted"
    /\ UNCHANGED <<stations, lookup, measure>>

\* The handler of KeyboardInterrupt (main.py 185-188): sort, then dump.
Shutdown ==
    /\ pc \in {"running", "interrupted"}
    /\ trips' = sort(trips)
    /\ call' = Before("shutdown", NoPayload, 0)
    /\ pc' = "saved"
    /\ UNCHANGED <<stations, bikes, last_updated, ttl, polls, enabled,
                 lookup, measure>>

Next ==
    \/ FetchFail
    \/ DecodeRaise
    \/ \E payload \in Payloads : UpdateSkip(payload)
    \/ \E payload \in Payloads : UpdateAccept(payload)
    \/ \E payload \in Payloads : UpdateRaise(payload)
    \/ \E payload \in Payloads : UpdateInterrupt(payload)
    \/ Shutdown

Spec == Init /\ [][Next]_vars

(***************************************************************************)
(* The station lookup alone.  The registry is constructed from any feed    *)
(* over five stations (S4 shares the longitude of S2; S5 is as far from    *)
(* (0, 0.002) as S4 is: 4^2 + 3^2 = 5^2) and find_station is called once,  *)
(* on self.stations, for a bike at any of the lookup points.               *)
(***************************************************************************)
S4 == [station_id |-> 4, name |-> "S4", lat |-> 5, lon |-> 200]
S5 == [station_id |-> 5, name |-> "S5", lat |-> 4, lon |-> 203]

LookupStations == {S1, S2, S3, S4, S5}

LookupFeeds ==
    UNION {{f \in [1..n -> LookupStations] :
                \A i, j \in 1..n : i # j => f[i] # f[j]} :
           n \in 0..Cardinality(LookupStations)}

LookupPoints ==
    {[lat |-> la, lon |-> lo] :
        la \in {0, 5}, lo \in {0 - 5, 0, 5, 9, 195, 200, 205, 250, 290, 300}}

InitLookup ==
    /\ \E stations_json \in LookupFeeds : stations = load_stations(stations_json)
    /\ Constructed
    /\ \E p \in LookupPoints : lookup = [point |-> p, done |-> FALSE, result |-> None]
    /\ measure = NoMeasure

\* bike.find_station(self.stations), as main.py 149-150 call it.
Lookup ==
    /\ ~lookup.done
    /\ \E result \in find_station(lookup.point, stations) :
           lookup' = [lookup EXCEPT !.done = TRUE, !.result = result]
    /\ UNCHANGED <<registry, measure>>

NextLookup == Lookup

SpecLookup == InitLookup /\ [][NextLookup]_vars

(***************************************************************************)
(* The documented scenarios.  The registry is constructed as in Init and   *)
(* polled as in Next, with payloads at the scenarios' epochs 1000 and 1200 *)
(* and at 1400, 200 s apart, so that one bike can make a trip in each of   *)
(* two polls; the bikes are in service at (0, 0) or (0, 0.0025).           *)
(***************************************************************************)
ScenarioTimes == {1000, 1200, 1400}

ScenarioPoints == {AtS1, EastOfS2}

ScenarioEntries ==
    {[bike_id |-> b, lat |-> p.lat, lon |-> p.lon, is_disabled |-> 0] :
        b \in BikeIds, p \in ScenarioPoints}

ScenarioArrays ==
    UNION {{a \in [1..n -> ScenarioEntries] :
                \A i, j \in 1..n : i # j => a[i].bike_id # a[j].bike_id} :
           n \in 0..MaxPayloadLen}

ScenarioPayloads ==
    {[last_updated |-> t, ttl |-> 60, bikes |-> a] :
        t \in ScenarioTimes, a \in ScenarioArrays}

NextScenario ==
    \/ FetchFail
    \/ DecodeRaise
    \/ \E payload \in ScenarioPayloads : UpdateSkip(payload)
    \/ \E payload \in ScenarioPayloads : UpdateAccept(payload)
    \/ \E payload \in ScenarioPayloads : UpdateRaise(payload)
    \/ \E payload \in ScenarioPayloads : UpdateInterrupt(payload)
    \/ Shutdown

SpecScenario == Init /\ [][NextScenario]_vars

(***************************************************************************)
(* Construction from any station feed that decodes.  __init__ leaves by    *)
(* sys.exit only when the feed cannot be read or decoded (main.py          *)
(* 110-114); a "stations" array that decodes is loaded whatever its        *)
(* length, the empty one included, and the program goes on to poll.        *)
(***************************************************************************)
DecodedFeeds == StationFeeds \cup {<<>>}

InitDecoded ==
    /\ \E stations_json \in DecodedFeeds : stations = load_stations(stations_json)
    /\ Constructed
    /\ lookup = NoLookup
    /\ measure = NoMeasure

SpecDecoded == InitDecoded /\ [][NextScenario]_vars

(***************************************************************************)
(* distance alone (main.py 84-95), called on any two of the lookup points  *)
(* (at the equator, on either side of it) and on any two points of one of  *)
(* four neighbourhoods in both hemispheres and on either side of the       *)
(* prime meridian, in both orders, and on the first of them and itself,    *)
(* together with the test of away_from on them.                            *)
(* The points of a neighbourhood lie up to 334 m of latitude apart, so     *)
(* that the cosines of the two latitudes and of their mean differ.         *)
(***************************************************************************)
Neighbourhood(lat, lon) ==
    {[lat |-> lat + a, lon |-> lon + o] : a \in {0, 40, 300}, o \in {0, 80, 250}}

\* 52.5 N, 13.4 E: cos = 0.6088.
BerlinPoints == Neighbourhood(5250000, 1340000)

\* 33.869 S, 151.209 E: cos = 0.8303.
SydneyPoints == Neighbourhood(0 - 3386900, 15120900)

\* 40.713 N, 74.006 W: cos = 0.7580.
NewYorkPoints == Neighbourhood(4071300, 0 - 7400600)

\* 78.22 N, 15.65 E: cos = 0.2042.
LongyearbyenPoints == Neighbourhood(7822000, 1565000)

\* Two points of Sydney 50.0002 m apart by the code, closer to the 50 m of
\* away_from than the fixed point resolves.
NearThresholdPairs ==
    {<<[lat |-> 0 - 3386900, lon |-> 15120900],
       [lat |-> 0 - 3386935, lon |-> 15120866]>>}

\* The pairs distance is called on: two points of one neighbourhood.
DistancePairs ==
    (LookupPoints \X LookupPoints) \cup (BerlinPoints \X BerlinPoints)
        \cup (SydneyPoints \X SydneyPoints) \cup (NewYorkPoints \X NewYorkPoints)
        \cup (LongyearbyenPoints \X LongyearbyenPoints)
        \cup NearThresholdPairs

InitDistance ==
    /\ stations = load_stations(<<S1, S2>>)
    /\ Constructed
    /\ lookup = NoLookup
    /\ \E pair \in DistancePairs :
           measure = [NoMeasure EXCEPT !.obj1 = pair[1], !.obj2 = pair[2]]

Measure ==
    /\ ~measure.done
    /\ \E away \in away_from(measure.obj1, measure.obj2) :
         measure' = [measure EXCEPT
                       !.done  = TRUE,
                       !.forth = distance_sq(measure.obj1, measure.obj2),
                       !.back  = distance_sq(measure.obj2, measure.obj1),
                       !.self  = distance_sq(measure.obj1, measure.obj1),
                       !.away  = away]
    /\ UNCHANGED <<registry, lookup>>

NextDistance == Measure

SpecDistance == InitDistance /\ [][NextDistance]_vars

(***************************************************************************)
(* Vocabulary of the properties.  They speak of the last call of update    *)
(* (call): its payload, the registry before it, and the registry now.      *)
(***************************************************************************)
IsUpdateCall == call.op \in {"skip", "accept", "raise"}

\* The payload passed the duplicate test: update went on to reconcile it.
Accepted == call.op \in {"accept", "raise"}

Now == call.payload.last_updated

Entry(k) == call.payload.bikes[k]

WasTracked(k) == Entry(k).bike_id \in DOMAIN call.bikes

Old(k) == call.bikes[Entry(k).bike_id]

Metres(m) == (m * 100) * (m * 100)

Far(k) == distance_sq(Old(k), Entry(k)) > Metres(50)

Long(k) == Now - Old(k).last_seen > 100

FarAndLong(k) == WasTracked(k) /\ Far(k) /\ Long(k)

\* The entries of the payload the loop reconciled before update ended.
Reconciled == 1..call.processed

\* update went on to reconcile the payload and returned, raised IndexError
\* or was interrupted.
Reconciling == call.op \in {"accept", "raise", "interrupt"}

\* The entries for which update got as far as appending a trip: reconciled
\* ones, and the one an interrupt found between main.py 158 and 159.
Appending ==
    {k \in Reconciled : FarAndLong(k)}
    \cup (IF call.cut = "appended" THEN {call.processed + 1} ELSE {})

AllEntries == 1..Len(call.payload.bikes)

(***************************************************************************)
(* C1.  A reconciliation appends a trip only for a bike that was tracked   *)
(* and is both more than 50 m from its stored record and seen more than    *)
(* 100 s after it: the trips a call appends are as many as the entries it  *)
(* reconciled that meet both conditions (and the entry an interrupt found  *)
(* it at, if it had appended for it, meets both).  A reconciled entry of a *)
(* tracked bike that fails either condition appends nothing, and the       *)
(* stored coordinates are the entry's afterwards.                          *)
(***************************************************************************)
C1_TripOnlyWhenFarAndLong ==
    Reconciling =>
        /\ Len(trips) - Len(call.trips) = Cardinality(Appending)
        /\ \A k \in Appending : FarAndLong(k)
        /\ \A k \in Reconciled :
             WasTracked(k) /\ ~FarAndLong(k) =>
                /\ bikes[Entry(k).bike_id].lat = Entry(k).lat
                /\ bikes[Entry(k).bike_id].lon = Entry(k).lon

\* C1 witness: a tracked bike is seen more than 50 m away only 50 s later;
\* no trip is appended and its stored coordinates changed to the new ones.
C1_Witness ==
    /\ call.op = "accept"
    /\ trips = call.trips
    /\ \E k \in Reconciled :
         /\ WasTracked(k) /\ Far(k)
         /\ Now - Old(k).last_seen = 50
         /\ bikes[Entry(k).bike_id].lon = Entry(k).lon
         /\ bikes[Entry(k).bike_id].lon # Old(k).lon

\* The trip main.py 151-158 append for entry k, if both lookups return.
TripMatches(trip, k) ==
    \E start_station \in find_station(Old(k), stations),
       end_station \in find_station(Entry(k), stations) :
        /\ ~Raised(start_station) /\ ~Raised(end_station)
        /\ trip.start_station_id = start_station.id
        /\ trip.start_station_name = start_station.name
        /\ trip.start_station_latitude = start_station.lat
        /\ trip.start_station_longitude = start_station.lon
        /\ trip.end_station_id = end_station.id
        /\ trip.end_station_name = end_station.name
        /\ trip.end_station_latitude = end_station.lat
        /\ trip.end_station_longitude = end_station.lon
        /\ trip.started_epoch = Old(k).last_seen
        /\ trip.ended_epoch = Now
        /\ trip.duration = Now - Old(k).last_seen

(***************************************************************************)
(* C2.  Whenever an accepted payload holds a tracked bike more than 50 m   *)
(* from its stored record and more than 100 s after it, update appends     *)
(* exactly one trip for it (the trips appended are one per such entry, in  *)
(* the entries' order), from StationIndex(old) to StationIndex(cur), from  *)
(* old.time to cur.time, and stores cur for the bike.                      *)
(***************************************************************************)
C2_TripEmittedForFarLongMove ==
    Accepted =>
        /\ Len(trips) - Len(call.trips)
             = Cardinality({k \in AllEntries : FarAndLong(k)})
        /\ \A k \in AllEntries :
             FarAndLong(k) =>
                /\ TripMatches(
                     trips[Len(call.trips)
                           + Cardinality({j \in 1..k : FarAndLong(j)})], k)
                /\ bikes[Entry(k).bike_id] = Bike(Entry(k), Now)

(***************************************************************************)
(* C3.  A call of update whose payload repeats the stored last_updated     *)
(* reconciles nothing and leaves bikes, trips, last_updated and ttl as     *)
(* they were, whatever the payload holds.                                  *)
(***************************************************************************)
C3_DuplicateSkipped ==
    IsUpdateCall /\ call.last_updated = <<call.payload.last_updated>> =>
        /\ call.processed = 0
        /\ bikes = call.bikes
        /\ trips = call.trips
        /\ last_updated = call.last_updated
        /\ ttl = call.ttl

\* C3 witness: a repeated last_updated came with another ttl and with bikes.
C3_Witness ==
    /\ call.op = "skip"
    /\ call.last_updated = <<call.payload.last_updated>>
    /\ ttl # <<call.payload.ttl>>
    /\ \E k \in AllEntries : ~WasTracked(k) /\ Entry(k).is_disabled = 0

(***************************************************************************)
(* C4.  A call of update whose payload carries a last_updated smaller than *)
(* the stored one reconciles nothing, leaves bikes, trips and last_updated *)
(* as they were, and raises nothing.                                       *)
(***************************************************************************)
C4_RegressRejected ==
    IsUpdateCall /\ call.last_updated # None
                 /\ call.payload.last_updated < call.last_updated[1] =>
        /\ call.processed = 0
        /\ bikes = call.bikes
        /\ trips = call.trips
        /\ last_updated = call.last_updated
        /\ pc = "running"

(***************************************************************************)
(* C5.  In every state a bike id is a key of bikes if and only if some     *)
(* accepted payload so far held it with is_disabled = 0.                   *)
(***************************************************************************)
C5_TrackedIffSeenEnabled ==
    \A b \in BikeIds : b \in DOMAIN bikes <=> b \in enabled

(***************************************************************************)
(* C6.  After a poll whose payload was accepted, the stored record of      *)
(* every tracked bike the payload holds is the payload's observation of    *)
(* it: its lat and lon, and last_seen = the payload's last_updated.        *)
(***************************************************************************)
C6_StoredRecordIsNewest ==
    Accepted =>
        \A k \in AllEntries :
            Entry(k).bike_id \in DOMAIN bikes =>
                bikes[Entry(k).bike_id]
                  = [lat |-> Entry(k).lat, lon |-> Entry(k).lon, last_seen |-> Now]

(***************************************************************************)
(* C10.  After the sort at shutdown, trips is a permutation of the trips   *)
(* logged before it, with non-decreasing start epochs.                     *)
(***************************************************************************)
Count(list, x) == Cardinality({i \in 1..Len(list) : list[i] = x})

C10_SortedByStartAtShutdown ==
    pc = "saved" =>
        /\ Len(trips) = Len(call.trips)
        /\ \A i \in 1..Len(trips) :
             Count(trips, trips[i]) = Count(call.trips, trips[i])
        /\ \A i \in 1..(Len(trips) - 1) :
             trips[i].started_epoch <= trips[i + 1].started_epoch

\* C10 witness: the log was out of start order before the sort.
C10_Witness ==
    /\ pc = "saved"
    /\ \E i \in 1..(Len(call.trips) - 1) :
         call.trips[i].started_epoch > call.trips[i + 1].started_epoch

(***************************************************************************)
(* Vocabulary of the lookup properties: the point asked for, the stations  *)
(* on either side of it in the longitude order, and the 10 m test.         *)
(***************************************************************************)
P == lookup.point

Within10(station) == distance_sq(station, P) < Metres(10)

LeftOfP == {i \in 1..Len(stations) : stations[i].lon < P.lon}

RightOfP == {i \in 1..Len(stations) : stations[i].lon >= P.lon}

\* The left neighbour (if any) and the right neighbour (if any) of P.
Neighbours ==
    {stations[i] : i \in {j \in LeftOfP : \A l \in LeftOfP : l <= j}}
    \cup {stations[i] : i \in {j \in RightOfP : \A r \in RightOfP : j <= r}}

Closest ==
    {c \in Neighbours :
        \A d \in Neighbours : distance_sq(c, P) <= distance_sq(d, P)}

Placeholder == [id |-> 0, name |-> "Flex parking", lat |-> P.lat, lon |-> P.lon]

(***************************************************************************)
(* C7.  A lookup that returns, returns the closer of the left and the      *)
(* right neighbour of P whenever that one is within 10 m of P.             *)
(***************************************************************************)
C7_CloserNeighbourReturned ==
    lookup.done /\ ~Raised(lookup.result) =>
        ((\E c \in Closest : Within10(c)) => lookup.result \in Closest)

(***************************************************************************)
(* C8.  The lookup never fails: whatever stations the index holds (here:   *)
(* at least one) and wherever P lies, it returns a value.                  *)
(***************************************************************************)
C8_LookupNeverFails ==
    lookup.done /\ stations # <<>> => ~Raised(lookup.result)

(***************************************************************************)
(* C9.  The result of a lookup is a station of the index less than 10 m    *)
(* from P or the flex-parking placeholder at P, and it is the placeholder  *)
(* if no station of the index is within 10 m of P.                         *)
(***************************************************************************)
C9_StationWithin10OrPlaceholder ==
    lookup.done /\ stations # <<>> =>
        /\ \/ \E i \in 1..Len(stations) :
                lookup.result = stations[i] /\ Within10(stations[i])
           \/ lookup.result = Placeholder
        /\ (\A i \in 1..Len(stations) : ~Within10(stations[i]))
              => lookup.result = Placeholder

(***************************************************************************)
(* C11.  The trip list only grows at its end while the program polls: a    *)
(* call of update, whether it fails to fetch or decode, skips, reconciles  *)
(* or is interrupted, leaves the trips it found as a prefix of the list,   *)
(* unchanged and in place, and appends after them one trip for each entry  *)
(* it got to append for, in the order of the entries in the payload.       *)
(***************************************************************************)
C11_TripLogAppendOnly ==
    IsUpdateCall \/ call.op \in {"fetch_fail", "decode_raise", "interrupt"} =>
        /\ Len(trips) >= Len(call.trips)
        /\ SubSeq(trips, 1, Len(call.trips)) = call.trips
        /\ Len(trips) - Len(call.trips) = Cardinality(Appending)
        /\ \A k \in Appending :
             TripMatches(trips[Len(call.trips)
                               + Cardinality({j \in Appending : j <= k})], k)

\* C11 witness: a call that found a trip in the list appends two different
\* trips, one for each entry of its payload, and the process goes on.
C11_Witness ==
    /\ call.op = "accept" /\ pc = "running"
    /\ call.trips # <<>>
    /\ Len(trips) = Len(call.trips) + 2
    /\ SubSeq(trips, 1, Len(call.trips)) = call.trips
    /\ trips[Len(trips) - 1] # trips[Len(trips)]
    /\ trips[Len(trips)].start_station_id # trips[Len(trips) - 1].start_station_id

(***************************************************************************)
(* C12.  Every trip of the list, at any time, has a duration that is the   *)
(* difference of the epochs its ended_at and started_at were formatted     *)
(* from, and that is not negative; this also in runs in which a payload's  *)
(* last_updated is below the stored one.                                   *)
(***************************************************************************)
C12_DurationIsSpanAndNotNegative ==
    \A i \in 1..Len(trips) :
        /\ trips[i].started_at = isoformat(trips[i].started_epoch)
        /\ trips[i].ended_at = isoformat(trips[i].ended_epoch)
        /\ trips[i].duration = trips[i].ended_epoch - trips[i].started_epoch
        /\ trips[i].duration >= 0

\* C12 witness: with a trip in the list, update reconciles a payload whose
\* last_updated is below the stored one and in which a tracked bike is more
\* than 50 m from its record, which was stored at a later epoch.
C12_Witness ==
    /\ call.op = "accept"
    /\ trips # <<>>
    /\ call.last_updated # None
    /\ Now < call.last_updated[1]
    /\ \E k \in Reconciled :
         WasTracked(k) /\ Far(k) /\ Now < Old(k).last_seen

(***************************************************************************)
(* C13.  A call of update in which fetching or decoding the feed fails     *)
(* returns, with bikes, trips, last_updated and ttl exactly as they were   *)
(* before it.                                                              *)
(***************************************************************************)
Returned == call.op \in {"fetch_fail", "skip", "accept"}

C13_FailedFetchReturnsUnchanged ==
    call.op \in {"fetch_fail", "decode_raise"} =>
        /\ Returned
        /\ bikes = call.bikes
        /\ trips = call.trips
        /\ last_updated = call.last_updated
        /\ ttl = call.ttl

(***************************************************************************)
(* C14.  No registry with an empty station index is produced, so no call   *)
(* of update runs in a registry without stations.                          *)
(***************************************************************************)
C14_NoUpdateWithoutStations ==
    IsUpdateCall => stations # <<>>

(***************************************************************************)
(* C15.  No trip of the list starts and ends at the same station of the    *)
(* index: the two station ids of a trip are equal only when both are the   *)
(* id 0 of the flex placeholder.                                           *)
(***************************************************************************)
C15_NoTripWithinOneStation ==
    \A i \in 1..Len(trips) :
        trips[i].start_station_id = trips[i].end_station_id
            => trips[i].start_station_id = FlexParking(AtS1).id

\* C15 witness: one call appends a trip that starts at a station of the
\* index, and reconciles a tracked bike seen more than 100 s later at another
\* point of the station it was stored at, for which it appends no trip.
C15_Witness ==
    /\ call.op = "accept"
    /\ Len(trips) = Len(call.trips) + 1
    /\ trips[Len(trips)].start_station_id # FlexParking(AtS1).id
    /\ \E k \in Reconciled :
         /\ WasTracked(k) /\ Long(k) /\ ~Far(k)
         /\ has_moved(Old(k), Entry(k))
         /\ find_station(Old(k), stations) = find_station(Entry(k), stations)
         /\ find_station(Entry(k), stations)
              \in {{Station(S1)}, {Station(S2)}, {Station(S3)}}

(***************************************************************************)
(* C16.  With the stations S1 at (0, 0) and S2 at (0, 0.002), a bike the   *)
(* first poll, at epoch 1000, reports in service at (0, 0) and the second  *)
(* poll, at epoch 1200, reports at (0, 0.0025) yields exactly one trip,    *)
(* from S1 to S2, of duration 200.                                         *)
(***************************************************************************)
C16_ScenarioOneTripS1ToS2 ==
    (/\ stations = load_stations(<<S1, S2>>)
     /\ polls = 2
     /\ Accepted
     /\ call.trips = <<>>
     /\ DOMAIN call.bikes = {"b1"}
     /\ call.bikes["b1"] = [lat |-> 0, lon |-> 0, last_seen |-> 1000]
     /\ call.payload = [last_updated |-> 1200, ttl |-> 60,
                        bikes |-> <<[bike_id |-> "b1", lat |-> 0, lon |-> 250,
                                     is_disabled |-> 0]>>])
    => /\ Len(trips) = 1
       /\ trips[1].start_station_id = S1.station_id
       /\ trips[1].end_station_id = S2.station_id
       /\ trips[1].duration = 200

(***************************************************************************)
(* C17.  distance is 0 between an object and itself and does not depend    *)
(* on the order of its two arguments.                                      *)
(***************************************************************************)
C17_DistanceZeroOnSelfAndSymmetric ==
    measure.done =>
        /\ measure.self = 0
        /\ measure.forth = measure.back

\* C17 witness: distance was called on two points of Berlin 300 units
\* (333.6 m) of latitude and 250 units (169.2 m there, 278.0 m at the
\* equator) of longitude apart, and returned 374.0 m.
C17_Witness ==
    /\ measure.done
    /\ measure.obj1.lat = 5250000 /\ measure.obj2.lat = 5250300
    /\ measure.obj1.lon = 1340250 /\ measure.obj2.lon = 1340000
    /\ measure.forth > squared(373)
    /\ measure.forth < squared(375)

(***************************************************************************)
(* C18.  A payload that passed the duplicate test is reconciled as a whole *)
(* or not at all: when update ends, by returning or by an exception,       *)
(* either every entry of the payload was reconciled, or bikes, trips and   *)
(* last_updated are as they were before the call.                          *)
(***************************************************************************)
C18_WholePayloadOrNothing ==
    Accepted =>
        \/ call.processed = Len(call.payload.bikes)
        \/ /\ bikes = call.bikes
           /\ trips = call.trips
           /\ last_updated = call.last_updated

\* The ids of the bikes the payload of the last call holds.
PayloadIds == {Entry(k).bike_id : k \in AllEntries}

(***************************************************************************)
(* C19.  A call of update that reconciles a payload, to its end or until    *)
(* an exception, changes the records of the bikes in the payload only: a   *)
(* bike the payload does not hold is tracked after the call if and only    *)
(* if it was before, with the record it had.                               *)
(***************************************************************************)
C19_AbsentBikesUntouched ==
    Reconciling =>
        \A b \in BikeIds \ PayloadIds :
            /\ b \in DOMAIN bikes <=> b \in DOMAIN call.bikes
            /\ b \in DOMAIN bikes => bikes[b] = call.bikes[b]

\* C19 witness: an accepted payload at a new epoch changes the record of
\* one tracked bike and does not hold another tracked bike, whose record,
\* stored at another epoch, is as it was.
C19_Witness ==
    /\ call.op = "accept"
    /\ \E b \in DOMAIN call.bikes \ PayloadIds :
         /\ bikes[b] = call.bikes[b]
         /\ bikes[b].last_seen # Now
    /\ \E k \in Reconciled :
         /\ WasTracked(k)
         /\ bikes[Entry(k).bike_id] # Old(k)

(***************************************************************************)
(* C20.  After a call of update that fails to fetch or decode the feed,    *)
(* also on the first poll, before any payload was accepted, the program    *)
(* is still in its polling loop: it goes on to call update again, and a    *)
(* shutdown still writes the trips.                                        *)
(***************************************************************************)
C20_FetchFailureKeepsPolling ==
    call.op = "fetch_fail" => pc = "running"

====
